---- MODULE Spec2Model ----
(***************************************************************************)
(* MuSig2 bindings of rust-secp256k1-zkp (src/zkp/musig.rs).               *)
(*                                                                         *)
(* The Rust wrappers of musig.rs are modelled operator by operator.  The   *)
(* secp256k1_musig_* functions they call live in the C library, outside    *)
(* src/; they are modelled after sections 3, 4 and 6 of the specification  *)
(* (ffi_* operators).  The curve is modelled by the additive group of      *)
(* integers modulo a small prime: a point is written as its discrete      *)
(* logarithm, 0 is the point at infinity and 1 is the generator.  A point  *)
(* P and its negation share the x coordinate; exactly one of the two has   *)
(* an even y coordinate.  Tagged hashes are fixed arithmetic mixes of      *)
(* their inputs.                                                           *)
(***************************************************************************)
EXTENDS Integers, Sequences, FiniteSets, TLC

(***************************************************************************)
(* Curve / hash backend (external collaborator, specification section 6).  *)
(***************************************************************************)
Order == 5
WordMax == 8
Scalars == 0..(Order - 1)
Infinity == 0
G == 1
Points == 1..(Order - 1)
\* A 32-byte big-endian word: values Order..WordMax-1 are not below the order.
Words == 0..(WordMax - 1)

None == [tag |-> "None"]
Some(v) == [tag |-> "Some", v |-> v]
Ok(v) == [tag |-> "Ok", v |-> v]
Err(e) == [tag |-> "Err", e |-> e]
Panic(m) == [tag |-> "Panic", m |-> m]

scalar_add(a, b) == (a + b) % Order
scalar_mul(a, b) == (a * b) % Order
scalar_negate(a) == (Order - a) % Order
ge_add(P, Q) == (P + Q) % Order
ge_neg(P) == (Order - P) % Order
ecmult(P, a) == (P * a) % Order
ecmult_gen(a) == a % Order

\* Parity of the y coordinate: 0 even, 1 odd.  The generator has an even y.
fe_is_odd(P) == IF P % 2 = 1 THEN 0 ELSE 1
EvenParity == 0
OddParity == 1
\* The point with even y that has the x coordinate of P (an x-only key).
xonly(P) == IF fe_is_odd(P) = 1 THEN ge_neg(P) ELSE P
XOnlyKeys == {P \in Points : fe_is_odd(P) = 0}

RECURSIVE MixFrom(_, _)
MixFrom(h, seq) ==
  IF seq = <<>> THEN h
  ELSE MixFrom((h * 2 + Head(seq) + 1) % Order, Tail(seq))
\* Tagged hash to a scalar: the tag is the domain number.
TaggedHash(tag, seq) ==
  MixFrom(CASE tag = "KeyAgg list" -> 1
            [] tag = "KeyAgg coefficient" -> 2
            [] tag = "MuSigNonce" -> 3
            [] tag = "MuSigNoncecoef" -> 4
            [] tag = "BIP0340/challenge" -> 5, seq)

\* An optional input as hashed: a presence marker, then the value.
OptBytes(o) == IF o.tag = "None" THEN <<0>> ELSE <<1, o.v>>

\* BIP340 challenge and the single-signer verifier.
challenge(rx, pkx, msg) == TaggedHash("BIP0340/challenge", <<rx, pkx, msg>>)
verify_schnorr(sig, msg, pk) ==
  LET e == challenge(sig.rx, pk, msg)
      R == ge_add(ecmult_gen(sig.s), ge_neg(ecmult(pk, e)))
  IN  /\ sig.s \in Scalars
      /\ R # Infinity
      /\ fe_is_odd(R) = 0
      /\ R = sig.rx

(***************************************************************************)
(* secp256k1_musig_* (C library): key aggregation and tweaking.            *)
(***************************************************************************)
RECURSIVE second_pk(_, _)
\* The first key of the list that differs from the first one (0 if none).
second_pk(first, pks) ==
  IF pks = <<>> THEN 0
  ELSE IF Head(pks) # first THEN Head(pks) ELSE second_pk(first, Tail(pks))

\* KeyAgg coefficient of the key with x coordinate x.
keyaggcoef(cache, x) ==
  IF x = cache.second_pk_x THEN 1
  ELSE TaggedHash("KeyAgg coefficient", <<cache.pk_hash, x>>)

RECURSIVE agg_sum(_, _)
agg_sum(cache, pks) ==
  IF pks = <<>> THEN Infinity
  ELSE ge_add(ecmult(Head(pks), keyaggcoef(cache, Head(pks))),
              agg_sum(cache, Tail(pks)))

ffi_pubkey_agg(pubkeys) ==
  LET c0 == [pk |-> Infinity,
             second_pk_x |-> second_pk(Head(pubkeys), pubkeys),
             pk_hash |-> TaggedHash("KeyAgg list", pubkeys),
             tweak |-> 0,
             internal_key_parity |-> 0]
      c1 == [c0 EXCEPT !.pk = agg_sum(c0, pubkeys)]
  IN  [ret |-> 1, cache |-> c1, agg_pk |-> xonly(c1.pk)]

\* Shared body of the two tweak functions; the cache is saved on success only.
ffi_pubkey_tweak_add_internal(cache, tweak, is_xonly) ==
  LET flip == is_xonly /\ fe_is_odd(cache.pk) = 1
      pk0 == IF flip THEN ge_neg(cache.pk) ELSE cache.pk
      par == IF flip THEN 1 - cache.internal_key_parity
                     ELSE cache.internal_key_parity
      t0 == IF flip THEN scalar_negate(cache.tweak) ELSE cache.tweak
      pk1 == ge_add(pk0, ecmult_gen(tweak))
  IN  IF pk1 = Infinity
      THEN [ret |-> 0, cache |-> cache, out |-> Infinity]
      ELSE [ret |-> 1,
            cache |-> [cache EXCEPT !.pk = pk1,
                                    !.tweak = scalar_add(t0, tweak),
                                    !.internal_key_parity = par],
            out |-> pk1]

ffi_pubkey_ec_tweak_add(cache, tweak) ==
  ffi_pubkey_tweak_add_internal(cache, tweak, FALSE)

ffi_pubkey_xonly_tweak_add(cache, tweak) ==
  LET r == ffi_pubkey_tweak_add_internal(cache, tweak, TRUE)
  IN  [r EXCEPT !.out = xonly(r.out)]

(***************************************************************************)
(* MusigKeyAggCache (musig.rs): the C cache and the aggregate x-only key   *)
(* computed by new().                                                      *)
(***************************************************************************)
\* Faulty variant: the keys are put in ascending order before aggregation.
MusigKeyAggCache_new_sorted(pubkeys) ==
  LET r == ffi_pubkey_agg(SortSeq(pubkeys, LAMBDA a, b : a < b))
  IN  IF r.ret = 0 THEN Panic("Invalid XOnlyPublicKey in input pubkeys")
      ELSE Ok([c |-> r.cache, agg_pk |-> r.agg_pk])

MusigKeyAggCache_new(pubkeys) ==
  LET r == ffi_pubkey_agg(pubkeys)
  IN  IF r.ret = 0 THEN Panic("Invalid XOnlyPublicKey in input pubkeys")
      ELSE Ok([c |-> r.cache, agg_pk |-> r.agg_pk])

agg_pk(self) == self.agg_pk

\* Faulty variant: the C function is given a copy of the cache.
pubkey_ec_tweak_add_on_copy(self, tweak) ==
  LET r == ffi_pubkey_ec_tweak_add(self.c, tweak)
  IN  [ret |-> IF r.ret = 0 THEN Err("InvalidTweak") ELSE Ok(r.out),
       self |-> self]

\* Faulty variant: the return code of the C function is ignored.
pubkey_ec_tweak_add_unchecked(self, tweak) ==
  LET r == ffi_pubkey_ec_tweak_add(self.c, tweak)
  IN  [ret |-> Ok(r.out), self |-> [self EXCEPT !.c = r.cache]]

\* Result of a tweak call: the returned value and the cache after the call
\* (the C function writes through self.as_mut_ptr(), i.e. field 0 only).
pubkey_ec_tweak_add(self, tweak) ==
  LET r == ffi_pubkey_ec_tweak_add(self.c, tweak)
  IN  [ret |-> IF r.ret = 0 THEN Err("InvalidTweak") ELSE Ok(r.out),
       self |-> [self EXCEPT !.c = r.cache]]

\* Faulty variant: the output key is stored in field 1 before the return code
\* is looked at.
pubkey_xonly_tweak_add_store_first(self, tweak) ==
  LET r == ffi_pubkey_xonly_tweak_add(self.c, tweak)
  IN  [ret |-> IF r.ret = 0 THEN Err("InvalidTweak") ELSE Ok(r.out),
       self |-> [c |-> r.cache, agg_pk |-> r.out]]

pubkey_xonly_tweak_add(self, tweak) ==
  LET r == ffi_pubkey_xonly_tweak_add(self.c, tweak)
  IN  [ret |-> IF r.ret = 0 THEN Err("InvalidTweak") ELSE Ok(r.out),
       self |-> [self EXCEPT !.c = r.cache]]

(***************************************************************************)
(* secp256k1_musig_* (C library): nonces, session, partial signatures.     *)
(***************************************************************************)
\* The consumed (zeroed) secret nonce; also what ffi::MusigSecNonce::new() is.
ZeroSecNonce == <<0, 0>>

\* One of the two nonce scalars: a tagged hash of every provided input,
\* never zero.
nonce_function_musig(i, session_id, msg, seckey, pk, extra) ==
  1 + (TaggedHash("MuSigNonce",
                  <<i, session_id>> \o OptBytes(msg) \o OptBytes(seckey)
                    \o OptBytes(pk) \o OptBytes(extra)) % (Order - 1))

ffi_nonce_gen(session_id, seckey, msg, keyagg_cache, extra) ==
  LET pk == IF keyagg_cache.tag = "None" THEN None
            ELSE Some(xonly(keyagg_cache.v.pk))
      k1 == nonce_function_musig(0, session_id, msg, seckey, pk, extra)
      k2 == nonce_function_musig(1, session_id, msg, seckey, pk, extra)
      ret == IF session_id = 0 THEN 0 ELSE 1
  IN  [ret |-> ret,
       secnonce |-> IF ret = 0 THEN ZeroSecNonce ELSE <<k1, k2>>,
       pubnonce |-> <<ecmult_gen(k1), ecmult_gen(k2)>>]

RECURSIVE nonce_sum(_, _)
nonce_sum(pubnonces, j) ==
  IF pubnonces = <<>> THEN Infinity
  ELSE ge_add(Head(pubnonces)[j], nonce_sum(Tail(pubnonces), j))

\* An identity sum is replaced by the generator.
ffi_nonce_agg(pubnonces) ==
  LET fix(P) == IF P = Infinity THEN G ELSE P
  IN  [ret |-> 1,
       aggnonce |-> <<fix(nonce_sum(pubnonces, 1)), fix(nonce_sum(pubnonces, 2))>>]

\* Binding coefficient b, and the final nonce R1 + b*R2 (+ adaptor).
compute_noncecoef(aggnonce, pkx, msg) ==
  TaggedHash("MuSigNoncecoef", <<aggnonce[1], aggnonce[2], pkx, msg>>)

fin_nonce_sum(aggnonce, b, adaptor) ==
  LET r0 == ge_add(aggnonce[1], ecmult(aggnonce[2], b))
  IN  IF adaptor.tag = "None" THEN r0 ELSE ge_add(r0, adaptor.v)

\* What ffi::MusigSession::new() is.
ZeroSession ==
  [fin_nonce_parity |-> 0, fin_nonce |-> 0, noncecoef |-> 0, challenge |-> 0,
   s_part |-> 0]

\* Returns 0 when the final nonce is the point at infinity (the case the
\* caller in musig.rs names in its unreachable!() message).
ffi_nonce_process(aggnonce, msg, cache, adaptor) ==
  LET pkx == xonly(cache.pk)
      b == compute_noncecoef(aggnonce, pkx, msg)
      R == fin_nonce_sum(aggnonce, b, adaptor)
      e == challenge(xonly(R), pkx, msg)
      et == scalar_mul(e, cache.tweak)
  IN  IF R = Infinity
      THEN [ret |-> 0, session |-> ZeroSession]
      ELSE [ret |-> 1,
            session |-> [fin_nonce_parity |-> fe_is_odd(R),
                         fin_nonce |-> xonly(R),
                         noncecoef |-> b,
                         challenge |-> e,
                         s_part |-> IF fe_is_odd(cache.pk) = 1
                                    THEN scalar_negate(et) ELSE et]]

\* The secret nonce is zeroed whatever the outcome.
ffi_partial_sign(secnonce, keypair, cache, session) ==
  LET neg_sk == (fe_is_odd(keypair.pk) + fe_is_odd(cache.pk)
                   + cache.internal_key_parity) % 2 = 1
      sk == IF neg_sk THEN scalar_negate(keypair.sk) ELSE keypair.sk
      mu == keyaggcoef(cache, xonly(keypair.pk))
      k1 == IF session.fin_nonce_parity = 1
            THEN scalar_negate(secnonce[1]) ELSE secnonce[1]
      k2 == IF session.fin_nonce_parity = 1
            THEN scalar_negate(secnonce[2]) ELSE secnonce[2]
      s == scalar_add(scalar_mul(session.challenge, scalar_mul(mu, sk)),
                      scalar_add(k1, scalar_mul(session.noncecoef, k2)))
  IN  IF secnonce = ZeroSecNonce
      THEN [ret |-> 0, secnonce |-> ZeroSecNonce, sig |-> 0]
      ELSE [ret |-> 1, secnonce |-> ZeroSecNonce, sig |-> s]

ffi_partial_sig_verify(partial_sig, pubnonce, pubkey, cache, session) ==
  LET rj0 == ge_add(pubnonce[1], ecmult(pubnonce[2], session.noncecoef))
      rj == IF session.fin_nonce_parity = 1 THEN ge_neg(rj0) ELSE rj0
      mu == keyaggcoef(cache, pubkey)
      e0 == scalar_mul(session.challenge, mu)
      e == IF fe_is_odd(cache.pk) # cache.internal_key_parity
           THEN scalar_negate(e0) ELSE e0
  IN  IF ecmult_gen(partial_sig) = ge_add(rj, ecmult(pubkey, e)) THEN 1 ELSE 0

RECURSIVE scalar_sum(_)
scalar_sum(sigs) ==
  IF sigs = <<>> THEN 0 ELSE scalar_add(Head(sigs), scalar_sum(Tail(sigs)))

ffi_partial_sig_agg(session, partial_sigs) ==
  [ret |-> 1,
   sig |-> [rx |-> session.fin_nonce,
            s |-> scalar_add(session.s_part, scalar_sum(partial_sigs))]]

ffi_nonce_parity(session) == [ret |-> 1, parity |-> session.fin_nonce_parity]

\* Both fail (return 0) on a scalar half that is not below the order.
ffi_adapt(pre_sig, sec_adaptor, nonce_parity) ==
  LET t == IF nonce_parity = 1 THEN scalar_negate(sec_adaptor) ELSE sec_adaptor
  IN  IF pre_sig.s >= Order
      THEN [ret |-> 0, sig |-> pre_sig]
      ELSE [ret |-> 1, sig |-> [rx |-> pre_sig.rx, s |-> scalar_add(pre_sig.s, t)]]

ffi_extract_adaptor(sig, pre_sig, nonce_parity) ==
  LET t == scalar_add(scalar_negate(sig.s % Order), pre_sig.s % Order)
  IN  IF sig.s >= Order \/ pre_sig.s >= Order
      THEN [ret |-> 0, sec_adaptor |-> 0]
      ELSE [ret |-> 1,
            sec_adaptor |-> IF nonce_parity = 0 THEN scalar_negate(t) ELSE t]

(***************************************************************************)
(* musig.rs: nonce generation, aggregation, session, signing, adaptor.     *)
(***************************************************************************)
\* Faulty variant: the two public nonce points are returned in the wrong order.
new_musig_nonce_pair_swapped(session_id, key_agg_cache, sec_key, msg, extra_rand) ==
  LET cache_ptr == IF key_agg_cache.tag = "None" THEN None
                   ELSE Some(key_agg_cache.v.c)
      r == ffi_nonce_gen(session_id, sec_key, msg, cache_ptr, extra_rand)
  IN  IF r.ret = 0 THEN Err("ZeroSession")
      ELSE Ok([sec_nonce |-> r.secnonce,
               pub_nonce |-> <<r.pubnonce[2], r.pubnonce[1]>>])

\* Faulty variant: the return code of the C function is ignored.
new_musig_nonce_pair_unchecked(session_id, key_agg_cache, sec_key, msg, extra_rand) ==
  LET cache_ptr == IF key_agg_cache.tag = "None" THEN None
                   ELSE Some(key_agg_cache.v.c)
      r == ffi_nonce_gen(session_id, sec_key, msg, cache_ptr, extra_rand)
  IN  Ok([sec_nonce |-> r.secnonce, pub_nonce |-> r.pubnonce])

\* Faulty variant: a missing extra_rand is taken for a failure.
new_musig_nonce_pair_needs_extra(session_id, key_agg_cache, sec_key, msg, extra_rand) ==
  LET cache_ptr == IF key_agg_cache.tag = "None" THEN None
                   ELSE Some(key_agg_cache.v.c)
      r == ffi_nonce_gen(session_id, sec_key, msg, cache_ptr, extra_rand)
  IN  IF r.ret = 0 \/ extra_rand = None THEN Err("ZeroSession")
      ELSE Ok([sec_nonce |-> r.secnonce, pub_nonce |-> r.pubnonce])

new_musig_nonce_pair(session_id, key_agg_cache, sec_key, msg, extra_rand) ==
  LET cache_ptr == IF key_agg_cache.tag = "None" THEN None
                   ELSE Some(key_agg_cache.v.c)
      r == ffi_nonce_gen(session_id, sec_key, msg, cache_ptr, extra_rand)
  IN  IF r.ret = 0 THEN Err("ZeroSession")
      ELSE Ok([sec_nonce |-> r.secnonce, pub_nonce |-> r.pubnonce])

nonce_gen(self, session_id, sec_key, msg, extra_rand) ==
  new_musig_nonce_pair(session_id, Some(self), Some(sec_key), Some(msg), extra_rand)

\* Faulty variant: the length passed to the C function is one short.
MusigAggNonce_new_drop_last(nonces) ==
  Ok(ffi_nonce_agg(SubSeq(nonces, 1, Len(nonces) - 1)).aggnonce)

\* Faulty variant: a sum that is the point at infinity is taken for a failure.
MusigAggNonce_new_identity_fails(nonces) ==
  LET r == ffi_nonce_agg(nonces)
  IN  IF nonce_sum(nonces, 1) = Infinity \/ nonce_sum(nonces, 2) = Infinity
      THEN Panic("Public key nonces are well-formed and valid in rust typesystem")
      ELSE Ok(r.aggnonce)

MusigAggNonce_new(nonces) ==
  LET r == ffi_nonce_agg(nonces)
  IN  IF r.ret = 0
      THEN Panic("Public key nonces are well-formed and valid in rust typesystem")
      ELSE Ok(r.aggnonce)

MusigSession_new(key_agg_cache, agg_nonce, msg, adaptor) ==
  LET r == ffi_nonce_process(agg_nonce, msg, key_agg_cache.c, adaptor)
  IN  IF r.ret = 0
      THEN Panic("Impossible to construct invalid arguments in safe rust.")
      ELSE Ok(r.session)

\* Faulty variant: the return code of the C function is ignored.
partial_sign_always_ok(self, secnonce, keypair, key_agg_cache) ==
  LET r == ffi_partial_sign(secnonce, keypair, key_agg_cache.c, self)
  IN  [ret |-> Ok(r.sig), secnonce |-> r.secnonce]

\* Faulty variant: the C function is given a copy of the secret nonce.
partial_sign_keep_nonce(self, secnonce, keypair, key_agg_cache) ==
  LET r == ffi_partial_sign(secnonce, keypair, key_agg_cache.c, self)
  IN  [ret |-> IF r.ret = 0 THEN Err("NonceReuse") ELSE Ok(r.sig),
       secnonce |-> secnonce]

\* Faulty variant: the tweak accumulated in the cache passed to the call is
\* added to the partial signature.
partial_sign_cache_tweak(self, secnonce, keypair, key_agg_cache) ==
  LET r == ffi_partial_sign(secnonce, keypair, key_agg_cache.c, self)
  IN  [ret |-> IF r.ret = 0 THEN Err("NonceReuse")
               ELSE Ok(scalar_add(r.sig, key_agg_cache.c.tweak)),
       secnonce |-> r.secnonce]

\* The secret nonce is borrowed mutably: the value left in it is part of the
\* result.
partial_sign(self, secnonce, keypair, key_agg_cache) ==
  LET r == ffi_partial_sign(secnonce, keypair, key_agg_cache.c, self)
  IN  [ret |-> IF r.ret = 0 THEN Err("NonceReuse") ELSE Ok(r.sig),
       secnonce |-> r.secnonce]

\* Faulty variant: the aggregate key is passed in place of the signer's key.
partial_verify_agg_key(self, key_agg_cache, partial_sig, pub_nonce, pub_key) ==
  ffi_partial_sig_verify(partial_sig, pub_nonce, key_agg_cache.agg_pk,
                         key_agg_cache.c, self) = 1

partial_verify(self, key_agg_cache, partial_sig, pub_nonce, pub_key) ==
  ffi_partial_sig_verify(partial_sig, pub_nonce, pub_key, key_agg_cache.c, self) = 1

\* secp256k1_musig_partial_sig_parse / _serialize: a 32-byte big-endian scalar,
\* rejected when it is not below the group order.
ffi_partial_sig_parse(in32) ==
  IF in32 >= Order THEN [ret |-> 0, sig |-> 0] ELSE [ret |-> 1, sig |-> in32]
ffi_partial_sig_serialize(partial_sig) == [ret |-> 1, out32 |-> partial_sig]

\* A byte string: its length and its value as a big-endian number.
MusigPartialSignature_serialize(self) ==
  LET r == ffi_partial_sig_serialize(self)
  IN  IF r.ret = 0 THEN Panic("Serialization cannot fail")
      ELSE [len |-> 32, v |-> r.out32]

\* Faulty variant: the return code of the C function is ignored.
MusigPartialSignature_from_slice_unchecked(data) ==
  IF data.len # 32
  THEN Err([kind |-> "ArgLenMismatch", expected |-> 32, got |-> data.len])
  ELSE LET r == ffi_partial_sig_parse(data.v)
       IN  Ok(r.sig)

MusigPartialSignature_from_slice(data) ==
  IF data.len # 32
  THEN Err([kind |-> "ArgLenMismatch", expected |-> 32, got |-> data.len])
  ELSE LET r == ffi_partial_sig_parse(data.v)
       IN  IF r.ret = 0 THEN Err([kind |-> "MalformedArg"]) ELSE Ok(r.sig)

\* secp256k1_musig_pubnonce_* / aggnonce_* parse and serialize: two points in
\* compressed form; parsing rejects an encoding that is not a curve point.
MUSIG_PUBNONCE_LEN == 132
MUSIG_AGGNONCE_LEN == 132

ffi_pubnonce_serialize(nonce) == [ret |-> 1, out |-> nonce]
ffi_pubnonce_parse(in) ==
  IF in[1] \in Points /\ in[2] \in Points
  THEN [ret |-> 1, nonce |-> in] ELSE [ret |-> 0, nonce |-> <<0, 0>>]
ffi_aggnonce_serialize(nonce) == [ret |-> 1, out |-> nonce]
ffi_aggnonce_parse(in) ==
  IF in[1] \in Points /\ in[2] \in Points
  THEN [ret |-> 1, nonce |-> in] ELSE [ret |-> 0, nonce |-> <<0, 0>>]

MusigPubNonce_serialize(self) ==
  LET r == ffi_pubnonce_serialize(self)
  IN  IF r.ret = 0 THEN Panic("Arguments must be valid and well-typed")
      ELSE [len |-> MUSIG_PUBNONCE_LEN, v |-> r.out]

\* Faulty variant: the length is not looked at.
MusigPubNonce_from_slice_no_length(data) ==
  LET r == ffi_pubnonce_parse(data.v)
  IN  IF r.ret = 0 THEN Err([kind |-> "MalformedArg"]) ELSE Ok(r.nonce)

\* Faulty variant: the two points are stored in the wrong order.
MusigPubNonce_from_slice_swapped(data) ==
  IF data.len # MUSIG_PUBNONCE_LEN
  THEN Err([kind |-> "ArgLenMismatch", expected |-> MUSIG_PUBNONCE_LEN,
            got |-> data.len])
  ELSE LET r == ffi_pubnonce_parse(data.v)
       IN  IF r.ret = 0 THEN Err([kind |-> "MalformedArg"])
           ELSE Ok(<<r.nonce[2], r.nonce[1]>>)

MusigPubNonce_from_slice(data) ==
  IF data.len # MUSIG_PUBNONCE_LEN
  THEN Err([kind |-> "ArgLenMismatch", expected |-> MUSIG_PUBNONCE_LEN,
            got |-> data.len])
  ELSE LET r == ffi_pubnonce_parse(data.v)
       IN  IF r.ret = 0 THEN Err([kind |-> "MalformedArg"]) ELSE Ok(r.nonce)

MusigAggNonce_serialize(self) ==
  LET r == ffi_aggnonce_serialize(self)
  IN  IF r.ret = 0 THEN Panic("Arguments must be valid and well-typed")
      ELSE [len |-> MUSIG_AGGNONCE_LEN, v |-> r.out]

MusigAggNonce_from_slice(data) ==
  IF data.len # MUSIG_AGGNONCE_LEN
  THEN Err([kind |-> "ArgLenMismatch", expected |-> MUSIG_AGGNONCE_LEN,
            got |-> data.len])
  ELSE LET r == ffi_aggnonce_parse(data.v)
       IN  IF r.ret = 0 THEN Err([kind |-> "MalformedArg"]) ELSE Ok(r.nonce)

\* Faulty variant: the length passed to the C function is one short.
partial_sig_agg_drop_last(self, partial_sigs) ==
  Ok(ffi_partial_sig_agg(self, SubSeq(partial_sigs, 1, Len(partial_sigs) - 1)).sig)

partial_sig_agg(self, partial_sigs) ==
  LET r == ffi_partial_sig_agg(self, partial_sigs)
  IN  IF r.ret = 0
      THEN Panic("Impossible to construct invalid(not well-typed) partial signatures")
      ELSE Ok(r.sig)

nonce_parity(self) ==
  LET r == ffi_nonce_parity(self)
  IN  IF r.ret = 0 THEN Panic("Well-typed and valid arguments to the function")
      ELSE Ok(r.parity)

\* Faulty variant: the nonce parity is not passed on (always even).
adapt_even_parity(pre_sig, sec_adaptor, nonce_par) ==
  Ok(ffi_adapt(pre_sig, sec_adaptor, 0).sig)

adapt(pre_sig, sec_adaptor, nonce_par) ==
  LET r == ffi_adapt(pre_sig, sec_adaptor, nonce_par)
  IN  IF r.ret = 0 THEN Panic("Arguments must be valid and well-typed")
      ELSE Ok(r.sig)

extract_adaptor(sig, pre_sig, nonce_par) ==
  LET r == ffi_extract_adaptor(sig, pre_sig, nonce_par)
  IN  IF r.ret = 0 THEN Panic("Arguments must be valid and well-typed")
      ELSE Ok(r.sec_adaptor)

(***************************************************************************)
(* The signing protocol: n signers over one key list and one message.      *)
(***************************************************************************)
MaxSigners == 2
MaxMsg == 0
MaxOk == 2

VARIABLES
  seckeys,    \* the signers' secret keys, in key-list order
  msg,        \* the message to sign
  cache,      \* the MusigKeyAggCache
  secnonce,   \* per signer: None, or Some(the MusigSecNonce value)
  pubnonce,   \* per signer: None, or Some(the MusigPubNonce)
  aggnonce,   \* None, or Some(the MusigAggNonce)
  adaptor,    \* the adaptor secret whose public key the session was given
  session,    \* None, or Some(the MusigSession)
  psig,       \* per signer: the partial signature made for the session
  oks,        \* per signer: how many partial_sign calls on the nonce returned Ok
  sig,        \* None, or Some(the aggregated (pre-)signature)
  final,      \* None, or Some(adapted signature and the secret used)
  args,       \* arguments of a stand-alone call
  ret,        \* what the last call returned
  tweaked     \* None, or Some(the key the last successful tweak returned)

vars == <<seckeys, msg, cache, secnonce, pubnonce, aggnonce, adaptor, session,
          psig, oks, sig, final, args, ret, tweaked>>

Signers == 1..Len(seckeys)
Msgs == 0..MaxMsg
\* A signer's session id: all zero, or the signer's own unique value.
SessionIds(i) == {0, i}

\* KeyPair::from_secret_key and XOnlyPublicKey::from_keypair.
KeyPair(sk) == [sk |-> sk, pk |-> ecmult_gen(sk)]
pub_key(sk) == xonly(ecmult_gen(sk))
PubKeys(sks) == [i \in 1..Len(sks) |-> pub_key(sks[i])]

KeyLists == UNION {[1..n -> Points] : n \in 1..MaxSigners}

\* Key lists whose aggregate is a valid point (the aggregate of a key list is
\* the point at infinity only with negligible probability).
Init ==
  /\ seckeys \in {ks \in KeyLists : ffi_pubkey_agg(PubKeys(ks)).cache.pk # Infinity}
  /\ msg \in Msgs
  /\ cache = MusigKeyAggCache_new(PubKeys(seckeys)).v
  /\ secnonce = [i \in Signers |-> None]
  /\ pubnonce = [i \in Signers |-> None]
  /\ aggnonce = None
  /\ adaptor = None
  /\ session = None
  /\ psig = [i \in Signers |-> None]
  /\ oks = [i \in Signers |-> 0]
  /\ sig = None
  /\ final = None
  /\ args = <<>>
  /\ ret = [op |-> "none"]
  /\ tweaked = None

\* Signer i calls key_agg_cache.nonce_gen.
NonceGen(i, session_id) ==
  /\ secnonce[i] = None
  /\ LET r == nonce_gen(cache, session_id, seckeys[i], msg, None)
     IN  /\ ret' = [op |-> "nonce_gen", i |-> i, val |-> r]
         /\ IF r.tag = "Ok"
            THEN /\ secnonce' = [secnonce EXCEPT ![i] = Some(r.v.sec_nonce)]
                 /\ pubnonce' = [pubnonce EXCEPT ![i] = Some(r.v.pub_nonce)]
            ELSE UNCHANGED <<secnonce, pubnonce>>
  /\ UNCHANGED <<tweaked, seckeys, msg, cache, aggnonce, adaptor, session, psig, oks,
                 sig, final, args>>

\* MusigAggNonce::new over every signer's public nonce.
NonceAgg ==
  /\ aggnonce = None
  /\ \A i \in Signers : pubnonce[i] # None
  /\ LET r == MusigAggNonce_new([i \in Signers |-> pubnonce[i].v])
     IN  /\ aggnonce' = Some(r.v)
         /\ ret' = [op |-> "aggnonce_new", val |-> r]
  /\ UNCHANGED <<tweaked, seckeys, msg, cache, secnonce, pubnonce, adaptor, session,
                 psig, oks, sig, final, args>>

\* MusigSession::new, with or without an adaptor public key t*G.  A call that
\* aborts leaves no session.
SessionNew(t) ==
  /\ aggnonce # None
  /\ session = None
  /\ LET ad == IF t.tag = "None" THEN None ELSE Some(ecmult_gen(t.v))
         r == MusigSession_new(cache, aggnonce.v, msg, ad)
     IN  /\ ret' = [op |-> "session_new", adaptor |-> ad, val |-> r]
         /\ IF r.tag = "Ok"
            THEN session' = Some(r.v) /\ adaptor' = t
            ELSE UNCHANGED <<session, adaptor>>
  /\ UNCHANGED <<tweaked, seckeys, msg, cache, secnonce, pubnonce, aggnonce, psig, oks,
                 sig, final, args>>

\* A session for another message, and a tweaked copy of the cache: what a
\* caller may pass to partial_sign instead of the session and the cache.
OtherSession ==
  MusigSession_new(cache, aggnonce.v, (msg + 1) % (MaxMsg + 2), None)
OtherCache == pubkey_ec_tweak_add(cache, 1).self

\* partial_sign with signer i's secret nonce; the partial signature is kept
\* for aggregation when it was made with the signer's own key for the session.
\* A fresh nonce is used with the signer's own key pair and the cache, for the
\* session or for another one; a later call passes any of the choices.
PartialSign(i, other_key, other_session, other_cache) ==
  /\ session # None
  /\ secnonce[i] # None
  /\ oks[i] < MaxOk
  /\ secnonce[i].v # ZeroSecNonce => ~other_key /\ ~other_cache
  /\ other_session => OtherSession.tag = "Ok"
  /\ LET kp == IF other_key THEN (i % Len(seckeys)) + 1 ELSE i
         sess == IF other_session THEN OtherSession.v ELSE session.v
         c == IF other_cache THEN OtherCache ELSE cache
         r == partial_sign(sess, secnonce[i].v, KeyPair(seckeys[kp]), c)
     IN  /\ secnonce' = [secnonce EXCEPT ![i] = Some(r.secnonce)]
         /\ ret' = [op |-> "partial_sign", i |-> i, val |-> r.ret]
         /\ oks' = [oks EXCEPT ![i] = IF r.ret.tag = "Ok" THEN @ + 1 ELSE @]
         /\ IF r.ret.tag = "Ok" /\ kp = i /\ sess = session.v /\ c = cache
            THEN psig' = [psig EXCEPT ![i] = Some(r.ret.v)]
            ELSE UNCHANGED psig
  /\ UNCHANGED <<tweaked, seckeys, msg, cache, pubnonce, aggnonce, adaptor, session,
                 sig, final, args>>

\* Faulty variant: the cache is borrowed mutably and a tweak is left in it.
PartialVerify_writes_cache(i) ==
  /\ psig[i] # None
  /\ ret' = [op |-> "partial_verify", i |-> i,
             val |-> partial_verify(session.v, cache, psig[i].v, pubnonce[i].v,
                                    pub_key(seckeys[i]))]
  /\ cache' = OtherCache
  /\ UNCHANGED <<tweaked, seckeys, msg, secnonce, pubnonce, aggnonce, adaptor,
                 session, psig, oks, sig, final, args>>

PartialVerify(i) ==
  /\ psig[i] # None
  /\ ret' = [op |-> "partial_verify", i |-> i,
             val |-> partial_verify(session.v, cache, psig[i].v, pubnonce[i].v,
                                    pub_key(seckeys[i]))]
  /\ UNCHANGED <<tweaked, seckeys, msg, cache, secnonce, pubnonce, aggnonce, adaptor,
                 session, psig, oks, sig, final, args>>

PartialSigAgg ==
  /\ sig = None
  /\ \A i \in Signers : psig[i] # None
  /\ LET r == partial_sig_agg(session.v, [i \in Signers |-> psig[i].v])
     IN  /\ sig' = Some(r.v)
         /\ ret' = [op |-> "partial_sig_agg", val |-> r]
  /\ UNCHANGED <<tweaked, seckeys, msg, cache, secnonce, pubnonce, aggnonce, adaptor,
                 session, psig, oks, final, args>>

\* adapt with the session's nonce parity and any secret t.
Adapt(t) ==
  /\ sig # None
  /\ final = None
  /\ LET r == adapt(sig.v, t, nonce_parity(session.v).v)
     IN  /\ final' = Some([sig |-> r.v, t |-> t])
         /\ ret' = [op |-> "adapt", val |-> r]
  /\ UNCHANGED <<tweaked, seckeys, msg, cache, secnonce, pubnonce, aggnonce, adaptor,
                 session, psig, oks, sig, args>>

ExtractAdaptor ==
  /\ final # None
  /\ ret' = [op |-> "extract_adaptor",
             val |-> extract_adaptor(final.v.sig, sig.v, nonce_parity(session.v).v)]
  /\ UNCHANGED <<tweaked, seckeys, msg, cache, secnonce, pubnonce, aggnonce, adaptor,
                 session, psig, oks, sig, final, args>>

Next ==
  \/ \E i \in Signers : \E sid \in SessionIds(i) : NonceGen(i, sid)
  \/ NonceAgg
  \/ \E t \in {None} \cup {Some(x) : x \in Points} : SessionNew(t)
  \/ \E i \in Signers :
       \E other_key \in BOOLEAN, other_session \in BOOLEAN, other_cache \in BOOLEAN :
         PartialSign(i, other_key, other_session, other_cache)
  \/ \E i \in Signers : PartialVerify(i)
  \/ PartialSigAgg
  \/ \E t \in Scalars : Adapt(t)
  \/ ExtractAdaptor

Spec == Init /\ [][Next]_vars

(***************************************************************************)
(* Claims about the signing protocol.                                      *)
(***************************************************************************)
PubNonces == [i \in Signers |-> pubnonce[i].v]
AdaptorPoint == IF adaptor = None THEN None ELSE Some(ecmult_gen(adaptor.v))

\* No substitution happened: neither sum of the public nonces is the point at
\* infinity.
NoSubstitution ==
  /\ nonce_sum(PubNonces, 1) # Infinity
  /\ nonce_sum(PubNonces, 2) # Infinity

SigVerifies(sg) == verify_schnorr(sg, msg, agg_pk(cache))

\* C1 as stated: without an adaptor, the aggregate of the signers' partial
\* signatures is accepted by the Schnorr verifier for the message and agg_pk().
C1_AggregateVerifies ==
  (sig # None /\ adaptor = None) => SigVerifies(sig.v)

\* C1 amended: without an adaptor and when no sum of the public nonces is
\* the point at infinity, the aggregate of the signers' partial signatures is
\* accepted by the Schnorr verifier for the message and agg_pk().
C1_AggregateVerifiesNoSubstitution ==
  (sig # None /\ adaptor = None /\ NoSubstitution) => SigVerifies(sig.v)

C1_Witness ==
  /\ sig # None /\ adaptor = None /\ NoSubstitution
  /\ Len(seckeys) = 2
  /\ session.v.fin_nonce_parity = OddParity
  /\ SigVerifies(sig.v)

\* C2: a partial_sign call on a secret nonce that an earlier call consumed
\* returns Err(NonceReuse) and yields no partial signature, whatever key
\* pair, session and cache it is given.
C2_SecondSignIsNonceReuse ==
  [][\A i \in Signers :
       (ret'.op = "partial_sign" /\ ret'.i = i
          /\ secnonce[i] = Some(ZeroSecNonce))
       => (ret'.val = Err("NonceReuse") /\ psig' = psig /\ oks' = oks)]_vars

C2_Witness ==
  /\ ret.op = "partial_sign"
  /\ ret.val = Err("NonceReuse")
  /\ oks[ret.i] = 1
  /\ psig[ret.i] # None

\* C3: after any partial_sign call the secret nonce passed to it is zeroed,
\* and a zeroed secret nonce stays zeroed.
C3_NonceConsumedForever ==
  [][\A i \in Signers :
       /\ (ret'.op = "partial_sign" /\ ret'.i = i)
            => secnonce'[i] = Some(ZeroSecNonce)
       /\ secnonce[i] = Some(ZeroSecNonce)
            => secnonce'[i] = Some(ZeroSecNonce)]_vars

C3_Witness ==
  \E i \in Signers :
    /\ secnonce[i] = Some(ZeroSecNonce)
    /\ ret.op = "partial_sign" /\ ret.i = i /\ ret.val.tag = "Ok"

\* C4: whatever the order of the partial_sign calls on one secret nonce, for
\* the same or for different sessions, at most one of them returns a partial
\* signature.
C4_AtMostOneSignaturePerNonce ==
  \A i \in Signers : oks[i] <= 1

C4_Witness ==
  \E i \in Signers :
    /\ oks[i] = 1
    /\ psig[i] = None
    /\ ret.op = "partial_sign" /\ ret.i = i /\ ret.val = Err("NonceReuse")

\* C7 as stated: with an adaptor t*G in the session the pre-signature is
\* rejected by the Schnorr verifier, and adapt with t and the session's nonce
\* parity gives a signature that is accepted.
C7_AdaptorPreSigThenValid ==
  /\ (sig # None /\ adaptor # None) => ~SigVerifies(sig.v)
  /\ (final # None /\ adaptor # None /\ final.v.t = adaptor.v)
       => SigVerifies(final.v.sig)

\* C7 amended: the same, when no sum of the public nonces is the point at
\* infinity.
C7_AdaptorPreSigThenValidNoSubstitution ==
  /\ (sig # None /\ adaptor # None /\ NoSubstitution) => ~SigVerifies(sig.v)
  /\ (final # None /\ adaptor # None /\ final.v.t = adaptor.v /\ NoSubstitution)
       => SigVerifies(final.v.sig)

C7_Witness ==
  /\ final # None /\ adaptor # None /\ final.v.t = adaptor.v /\ NoSubstitution
  /\ session.v.fin_nonce_parity = OddParity
  /\ ~SigVerifies(sig.v)
  /\ SigVerifies(final.v.sig)

\* C8: a partial signature made by partial_sign with a fresh secret nonce is
\* accepted by partial_verify on the same session and cache with the signer's
\* public nonce and x-only public key, with or without an adaptor.
C8_OwnPartialSigVerifies ==
  ret.op = "partial_verify" => ret.val = TRUE

C8_Witness ==
  /\ ret.op = "partial_verify" /\ ret.val = TRUE
  /\ adaptor # None
  /\ session.v.fin_nonce_parity = OddParity
  /\ fe_is_odd(cache.c.pk) = 1

(***************************************************************************)
(* Stand-alone calls: the arguments are drawn in the initial state.        *)
(***************************************************************************)
NoProtocolState ==
  /\ secnonce = [i \in Signers |-> None]
  /\ pubnonce = [i \in Signers |-> None]
  /\ aggnonce = None
  /\ adaptor = None
  /\ session = None
  /\ psig = [i \in Signers |-> None]
  /\ oks = [i \in Signers |-> 0]
  /\ sig = None
  /\ final = None
  /\ ret = [op |-> "none"]
  /\ tweaked = None

ProtocolVars == <<secnonce, pubnonce, aggnonce, adaptor, session, psig, oks,
                  sig, final>>

OptionOf(S) == {None} \cup {Some(x) : x \in S}

\* new_musig_nonce_pair and nonce_gen: a 32-byte session id and the optional
\* inputs, each present or absent.
InitNonce ==
  /\ seckeys \in {ks \in KeyLists : ffi_pubkey_agg(PubKeys(ks)).cache.pk # Infinity}
  /\ msg \in Msgs
  /\ cache = MusigKeyAggCache_new(PubKeys(seckeys)).v
  /\ args \in [session_id : Words,
               with_cache : BOOLEAN,
               with_sec_key : BOOLEAN,
               with_msg : BOOLEAN,
               extra_rand : OptionOf(Words)]
  /\ NoProtocolState

NewMusigNoncePair ==
  /\ ret.op = "none"
  /\ ret' = [op |-> "new_musig_nonce_pair",
             val |-> new_musig_nonce_pair(
                       args.session_id,
                       IF args.with_cache THEN Some(cache) ELSE None,
                       IF args.with_sec_key THEN Some(seckeys[1]) ELSE None,
                       IF args.with_msg THEN Some(msg) ELSE None,
                       args.extra_rand)]
  /\ UNCHANGED <<tweaked, seckeys, msg, cache, args>>
  /\ UNCHANGED ProtocolVars

NonceGenCall ==
  /\ ret.op = "none"
  /\ args.with_cache /\ args.with_sec_key /\ args.with_msg
  /\ ret' = [op |-> "nonce_gen",
             val |-> nonce_gen(cache, args.session_id, seckeys[1], msg,
                               args.extra_rand)]
  /\ UNCHANGED <<tweaked, seckeys, msg, cache, args>>
  /\ UNCHANGED ProtocolVars

\* A second call of new_musig_nonce_pair with the arguments of the first.
NewMusigNoncePairAgain ==
  /\ ret.op = "new_musig_nonce_pair"
  /\ ret' = [op |-> "new_musig_nonce_pair_again",
             first |-> ret.val,
             val |-> new_musig_nonce_pair(
                       args.session_id,
                       IF args.with_cache THEN Some(cache) ELSE None,
                       IF args.with_sec_key THEN Some(seckeys[1]) ELSE None,
                       IF args.with_msg THEN Some(msg) ELSE None,
                       args.extra_rand)]
  /\ UNCHANGED <<tweaked, seckeys, msg, cache, args>>
  /\ UNCHANGED ProtocolVars

NextNonce == NewMusigNoncePair \/ NonceGenCall \/ NewMusigNoncePairAgain

SpecNonce == InitNonce /\ [][NextNonce]_vars

\* C5: with a session id of 32 zero bytes, new_musig_nonce_pair and nonce_gen
\* return Err(ZeroSession), and so no nonce, whichever optional inputs are
\* present.
C5_ZeroSessionRejected ==
  (ret.op \in {"new_musig_nonce_pair", "nonce_gen"} /\ args.session_id = 0)
    => ret.val = Err("ZeroSession")

C5_Witness ==
  /\ ret.op = "new_musig_nonce_pair"
  /\ args.session_id = 0
  /\ args.with_cache /\ args.with_sec_key /\ args.with_msg
  /\ args.extra_rand # None
  /\ ret.val = Err("ZeroSession")

\* adapt and extract_adaptor on any 64-byte signature, adaptor secret and
\* parity.
InitAdaptor ==
  /\ seckeys = <<>>
  /\ msg = 0
  /\ cache = None
  /\ args \in [pre_sig : [rx : Words, s : Words],
               sec_adaptor : Scalars,
               nonce_parity : {EvenParity, OddParity}]
  /\ NoProtocolState

AdaptCall ==
  /\ ret.op = "none"
  /\ ret' = [op |-> "adapt",
             val |-> adapt(args.pre_sig, args.sec_adaptor, args.nonce_parity)]
  /\ UNCHANGED <<tweaked, seckeys, msg, cache, args>>
  /\ UNCHANGED ProtocolVars

\* extract_adaptor on the signature adapt returned.
ExtractAdaptorCall ==
  /\ ret.op = "adapt"
  /\ ret.val.tag = "Ok"
  /\ ret' = [op |-> "extract_adaptor",
             val |-> extract_adaptor(ret.val.v, args.pre_sig, args.nonce_parity)]
  /\ UNCHANGED <<tweaked, seckeys, msg, cache, args>>
  /\ UNCHANGED ProtocolVars

NextAdaptor == AdaptCall \/ ExtractAdaptorCall

SpecAdaptor == InitAdaptor /\ [][NextAdaptor]_vars

\* C6: for every pre-signature (scalar half below the order), adaptor secret t
\* (zero included) and parity p, adapt returns a signature and
\* extract_adaptor(adapt(pre_sig, t, p), pre_sig, p) = t.
C6_AdaptorRoundTrip ==
  /\ (ret.op = "adapt" /\ args.pre_sig.s \in Scalars) => ret.val.tag = "Ok"
  /\ ret.op = "extract_adaptor" => ret.val = Ok(args.sec_adaptor)

C6_Witness ==
  /\ ret.op = "extract_adaptor"
  /\ args.sec_adaptor # 0
  /\ args.nonce_parity = OddParity
  /\ ret.val = Ok(args.sec_adaptor)

(***************************************************************************)
(* Tweaking the aggregate key of a cache.                                  *)
(***************************************************************************)
InitTweak ==
  /\ seckeys \in {ks \in KeyLists : ffi_pubkey_agg(PubKeys(ks)).cache.pk # Infinity}
  /\ msg = 0
  /\ cache = MusigKeyAggCache_new(PubKeys(seckeys)).v
  /\ args = <<>>
  /\ NoProtocolState

\* The tweak is a SecretKey: a scalar that is not zero.
TweakEc(t) ==
  /\ LET r == pubkey_ec_tweak_add(cache, t)
     IN  /\ cache' = r.self
         /\ ret' = [op |-> "pubkey_ec_tweak_add", tweak |-> t, val |-> r.ret]
         /\ tweaked' = IF r.ret.tag = "Ok" THEN Some(r.ret.v) ELSE tweaked
  /\ UNCHANGED <<seckeys, msg, args>>
  /\ UNCHANGED ProtocolVars

TweakXonly(t) ==
  /\ LET r == pubkey_xonly_tweak_add(cache, t)
     IN  /\ cache' = r.self
         /\ ret' = [op |-> "pubkey_xonly_tweak_add", tweak |-> t, val |-> r.ret]
         /\ tweaked' = IF r.ret.tag = "Ok" THEN Some(r.ret.v) ELSE tweaked
  /\ UNCHANGED <<seckeys, msg, args>>
  /\ UNCHANGED ProtocolVars

NextTweak ==
  \/ \E t \in Points : TweakEc(t)
  \/ \E t \in Points : TweakXonly(t)

SpecTweak == InitTweak /\ [][NextTweak]_vars

\* C10: a tweak call returns Err(InvalidTweak) exactly when X + t*G is the
\* point at infinity (X the current aggregate key, its even-y form for the
\* x-only tweak); otherwise it returns X + t*G (its x-only form for the x-only
\* tweak).
C10_InvalidTweakIffInfinity ==
  [][/\ ret'.op = "pubkey_ec_tweak_add" =>
          LET P == ge_add(cache.c.pk, ecmult_gen(ret'.tweak))
          IN  ret'.val = IF P = Infinity THEN Err("InvalidTweak") ELSE Ok(P)
     /\ ret'.op = "pubkey_xonly_tweak_add" =>
          LET P == ge_add(xonly(cache.c.pk), ecmult_gen(ret'.tweak))
          IN  ret'.val = IF P = Infinity THEN Err("InvalidTweak")
                         ELSE Ok(xonly(P))]_vars

C10_Witness ==
  /\ ret.op = "pubkey_ec_tweak_add"
  /\ ret.val = Err("InvalidTweak")
  /\ cache.c.tweak # 0

(***************************************************************************)
(* The aggregator's side: partial signatures arrive as 32 bytes from the   *)
(* network, from signers who may not have run partial_sign.                *)
(***************************************************************************)
ReceivePartialSig(i, data) ==
  /\ session # None
  /\ psig[i] = None
  /\ LET r == MusigPartialSignature_from_slice(data)
     IN  /\ ret' = [op |-> "partial_sig_from_slice", i |-> i, val |-> r]
         /\ psig' = IF r.tag = "Ok" THEN [psig EXCEPT ![i] = Some(r.v)] ELSE psig
  /\ UNCHANGED <<tweaked, seckeys, msg, cache, secnonce, pubnonce, aggnonce, adaptor,
                 session, oks, sig, final, args>>

NextForge ==
  \/ \E i \in Signers : \E sid \in SessionIds(i) : NonceGen(i, sid)
  \/ NonceAgg
  \/ \E t \in {None} \cup {Some(x) : x \in Points} : SessionNew(t)
  \/ \E i \in Signers : \E w \in Words : ReceivePartialSig(i, [len |-> 32, v |-> w])
  \/ \E i \in Signers : PartialVerify(i)
  \/ PartialSigAgg

SpecForge == Init /\ [][NextForge]_vars

\* The signers whose partial signature partial_verify rejects.
InvalidSigners ==
  {i \in Signers :
     ~partial_verify(session.v, cache, psig[i].v, pubnonce[i].v,
                     pub_key(seckeys[i]))}

TweakOps == {"pubkey_ec_tweak_add", "pubkey_xonly_tweak_add"}

\* C11: a tweak call that returns Err(InvalidTweak) leaves the whole
\* MusigKeyAggCache (aggregate key, accumulated tweak, parity, agg_pk) as it
\* was before the call.
C11_FailedTweakLeavesCache ==
  [][(ret'.op \in TweakOps /\ ret'.val = Err("InvalidTweak"))
       => cache' = cache]_vars

C11_Witness ==
  /\ ret.op = "pubkey_xonly_tweak_add"
  /\ ret.val = Err("InvalidTweak")
  /\ cache.c.internal_key_parity = 1

\* C13: in every reachable state agg_pk() is the x-only form of the aggregate
\* key the cache currently holds.
C13_AggPkIsCurrentKey == agg_pk(cache) = xonly(cache.c.pk)

\* A tweak has succeeded and agg_pk() is not the x-only form of the key it
\* returned.
C13_Witness ==
  /\ ret.op = "pubkey_ec_tweak_add"
  /\ ret.val.tag = "Ok"
  /\ agg_pk(cache) # xonly(ret.val.v)
  /\ agg_pk(cache) = MusigKeyAggCache_new(PubKeys(seckeys)).v.agg_pk

(***************************************************************************)
(* Signing with a tweaked cache: the cache is tweaked before the first     *)
(* nonce is generated, then the signers run the protocol with it.          *)
(***************************************************************************)
TweakBeforeSigning(t, is_xonly) ==
  /\ \A i \in Signers : secnonce[i] = None
  /\ IF is_xonly THEN TweakXonly(t) ELSE TweakEc(t)

NextTweakSign ==
  \/ \E t \in Points : TweakBeforeSigning(t, FALSE)
  \/ \E t \in Points : TweakBeforeSigning(t, TRUE)
  \/ \E i \in Signers : \E sid \in SessionIds(i) : NonceGen(i, sid)
  \/ NonceAgg
  \/ SessionNew(None)
  \/ \E i \in Signers : PartialSign(i, FALSE, FALSE, FALSE)
  \/ PartialSigAgg

SpecTweakSign == Init /\ [][NextTweakSign]_vars

\* C12 as stated: after a successful tweak, the aggregate of the partial
\* signatures made with the tweaked cache is accepted by the Schnorr verifier
\* for the x-only form of the key the tweak returned.
C12_TweakedAggregateVerifies ==
  (sig # None /\ tweaked # None)
    => verify_schnorr(sig.v, msg, xonly(tweaked.v))

\* C12 amended: the same, when no sum of the public nonces is the point at
\* infinity.
C12_TweakedAggregateVerifiesNoSubstitution ==
  (sig # None /\ tweaked # None /\ NoSubstitution)
    => verify_schnorr(sig.v, msg, xonly(tweaked.v))

C12_Witness ==
  /\ sig # None /\ tweaked # None /\ NoSubstitution
  /\ Len(seckeys) > 1
  /\ cache.c.internal_key_parity = 1
  /\ fe_is_odd(cache.c.pk) = 1
  /\ xonly(tweaked.v) # agg_pk(cache)
  /\ verify_schnorr(sig.v, msg, xonly(tweaked.v))

(***************************************************************************)
(* Key aggregation called twice, on a key list and on a list of the same   *)
(* length (the same list, a reordering of it, or another list).            *)
(***************************************************************************)
MaxKeys == 3

PubKeyLists ==
  {l \in UNION {[1..n -> XOnlyKeys] : n \in 1..MaxKeys} :
     ffi_pubkey_agg(l).cache.pk # Infinity}

Count(l, x) == Cardinality({i \in DOMAIN l : l[i] = x})
IsReordering(a, b) ==
  /\ Len(a) = Len(b)
  /\ a # b
  /\ \A x \in XOnlyKeys : Count(a, x) = Count(b, x)

InitKeyAgg ==
  /\ seckeys = <<>>
  /\ msg = 0
  /\ cache = None
  /\ args \in {a \in [pubkeys : PubKeyLists, other : PubKeyLists] :
                 Len(a.pubkeys) = Len(a.other)}
  /\ NoProtocolState

KeyAggFirst ==
  /\ ret.op = "none"
  /\ LET r == MusigKeyAggCache_new(args.pubkeys)
     IN  /\ cache' = r.v
         /\ ret' = [op |-> "keyagg_new", n |-> 1, val |-> r]
  /\ UNCHANGED <<tweaked, seckeys, msg, args>>
  /\ UNCHANGED ProtocolVars

\* Faulty variant: the C cache is not created afresh; the sum starts from the
\* aggregate key of the cache made by the call before.
KeyAggSecond_reused ==
  /\ ret.op = "keyagg_new" /\ ret.n = 1
  /\ LET r == MusigKeyAggCache_new(args.other).v
         pk == ge_add(r.c.pk, cache.c.pk)
     IN  ret' = [op |-> "keyagg_new", n |-> 2,
                 val |-> Ok([c |-> [r.c EXCEPT !.pk = pk], agg_pk |-> xonly(pk)])]
  /\ UNCHANGED <<tweaked, seckeys, msg, cache, args>>
  /\ UNCHANGED ProtocolVars

KeyAggSecond ==
  /\ ret.op = "keyagg_new" /\ ret.n = 1
  /\ ret' = [op |-> "keyagg_new", n |-> 2,
             val |-> MusigKeyAggCache_new(args.other)]
  /\ UNCHANGED <<tweaked, seckeys, msg, cache, args>>
  /\ UNCHANGED ProtocolVars

NextKeyAgg == KeyAggFirst \/ KeyAggSecond

SpecKeyAgg == InitKeyAgg /\ [][NextKeyAgg]_vars

SecondCallDone == ret.op = "keyagg_new" /\ ret.n = 2

RoundTripPubNonce(i) ==
  /\ pubnonce[i] # None
  /\ LET data == MusigPubNonce_serialize(pubnonce[i].v)
     IN  ret' = [op |-> "round_trip", kind |-> "MusigPubNonce",
                 orig |-> pubnonce[i].v, data |-> data,
                 val |-> MusigPubNonce_from_slice(data)]
  /\ UNCHANGED <<tweaked, seckeys, msg, cache, secnonce, pubnonce, aggnonce,
                 adaptor, session, psig, oks, sig, final, args>>

RoundTripAggNonce ==
  /\ aggnonce # None
  /\ LET data == MusigAggNonce_serialize(aggnonce.v)
     IN  ret' = [op |-> "round_trip", kind |-> "MusigAggNonce",
                 orig |-> aggnonce.v, data |-> data,
                 val |-> MusigAggNonce_from_slice(data)]
  /\ UNCHANGED <<tweaked, seckeys, msg, cache, secnonce, pubnonce, aggnonce,
                 adaptor, session, psig, oks, sig, final, args>>

RoundTripPartialSig(i) ==
  /\ psig[i] # None
  /\ LET data == MusigPartialSignature_serialize(psig[i].v)
     IN  ret' = [op |-> "round_trip", kind |-> "MusigPartialSignature",
                 orig |-> psig[i].v, data |-> data,
                 val |-> MusigPartialSignature_from_slice(data)]
  /\ UNCHANGED <<tweaked, seckeys, msg, cache, secnonce, pubnonce, aggnonce,
                 adaptor, session, psig, oks, sig, final, args>>

NextWire ==
  \/ \E i \in Signers : \E sid \in SessionIds(i) : NonceGen(i, sid)
  \/ NonceAgg
  \/ \E t \in {None} \cup {Some(x) : x \in Points} : SessionNew(t)
  \/ \E i \in Signers : PartialSign(i, FALSE, FALSE, FALSE)
  \/ \E i \in Signers : RoundTripPubNonce(i)
  \/ RoundTripAggNonce
  \/ \E i \in Signers : RoundTripPartialSig(i)

SpecWire == Init /\ [][NextWire]_vars

WireLens == {0, 31, 32, 33, 64, 66, 131, 132, 133}

InitParse ==
  /\ seckeys = <<>>
  /\ msg = 0
  /\ cache = None
  /\ args \in [kind : {"MusigPartialSignature"},
               data : [len : WireLens, v : Words]]
             \cup [kind : {"MusigPubNonce", "MusigAggNonce"},
                   data : [len : WireLens, v : Words \X Words]]
  /\ NoProtocolState

FromSlice ==
  /\ ret.op = "none"
  /\ ret' = [op |-> "from_slice",
             val |-> CASE args.kind = "MusigPartialSignature" ->
                            MusigPartialSignature_from_slice(args.data)
                       [] args.kind = "MusigPubNonce" ->
                            MusigPubNonce_from_slice(args.data)
                       [] args.kind = "MusigAggNonce" ->
                            MusigAggNonce_from_slice(args.data)]
  /\ UNCHANGED <<tweaked, seckeys, msg, cache, args>>
  /\ UNCHANGED ProtocolVars

\* serialize on the value from_slice returned.
SerializeParsed ==
  /\ ret.op = "from_slice"
  /\ ret.val.tag = "Ok"
  /\ ret' = [op |-> "serialize",
             val |-> CASE args.kind = "MusigPartialSignature" ->
                            MusigPartialSignature_serialize(ret.val.v)
                       [] args.kind = "MusigPubNonce" ->
                            MusigPubNonce_serialize(ret.val.v)
                       [] args.kind = "MusigAggNonce" ->
                            MusigAggNonce_serialize(ret.val.v)]
  /\ UNCHANGED <<tweaked, seckeys, msg, cache, args>>
  /\ UNCHANGED ProtocolVars

NextParse == FromSlice \/ SerializeParsed

SpecParse == InitParse /\ [][NextParse]_vars

ExpectedLen ==
  IF args.kind = "MusigPartialSignature" THEN 32 ELSE 132

\* C17: from_slice returns ArgLenMismatch{expected, got = input length} for
\* every input of the wrong length, whatever its content, with expected = 32
\* for MusigPartialSignature and 132 for MusigPubNonce and MusigAggNonce; it
\* returns MalformedArg only for inputs of the right length.
C17_WrongLengthIsArgLenMismatch ==
  ret.op = "from_slice" =>
    /\ args.data.len # ExpectedLen =>
         ret.val = Err([kind |-> "ArgLenMismatch", expected |-> ExpectedLen,
                        got |-> args.data.len])
    /\ ret.val = Err([kind |-> "MalformedArg"]) => args.data.len = ExpectedLen

C17_Witness ==
  /\ ret.op = "from_slice"
  /\ args.kind = "MusigPubNonce"
  /\ args.data.len = 66
  /\ args.data.v[1] \notin Points
  /\ ret.val = Err([kind |-> "ArgLenMismatch", expected |-> 132, got |-> 66])

MaxNonces == 2

PubNonceLists == UNION {[1..n -> Points \X Points] : n \in 1..MaxNonces}

Permuted(l, p) == [i \in 1..Len(l) |-> l[p[i]]]

InitNonceAgg ==
  /\ seckeys = <<>>
  /\ msg = 0
  /\ cache = None
  /\ args \in {a \in [nonces : PubNonceLists,
                      perm : UNION {Permutations(1..n) : n \in 1..MaxNonces}] :
                 DOMAIN a.perm = DOMAIN a.nonces}
  /\ NoProtocolState

NonceAggFirst ==
  /\ ret.op = "none"
  /\ ret' = [op |-> "aggnonce_new", n |-> 1,
             val |-> MusigAggNonce_new(args.nonces)]
  /\ UNCHANGED <<tweaked, seckeys, msg, cache, args>>
  /\ UNCHANGED ProtocolVars

NonceAggPermuted ==
  /\ ret.op = "aggnonce_new" /\ ret.n = 1
  /\ ret' = [op |-> "aggnonce_new", n |-> 2, first |-> ret.val,
             val |-> MusigAggNonce_new(Permuted(args.nonces, args.perm))]
  /\ UNCHANGED <<tweaked, seckeys, msg, cache, args>>
  /\ UNCHANGED ProtocolVars

NextNonceAgg == NonceAggFirst \/ NonceAggPermuted

SpecNonceAgg == InitNonceAgg /\ [][NextNonceAgg]_vars

RECURSIVE ComponentSum(_, _)
ComponentSum(l, j) ==
  IF l = <<>> THEN Infinity
  ELSE (Head(l)[j] + ComponentSum(Tail(l), j)) % Order

\* C19 as stated: MusigAggNonce::new over a permutation of the public nonces
\* returns the same aggregate nonce, and each component of it is the sum of the
\* nonces' corresponding components.
C19_NonceAggIsComponentSum ==
  (ret.op = "aggnonce_new" /\ ret.n = 2) =>
    /\ ret.val = ret.first
    /\ ret.val = Ok(<<ComponentSum(args.nonces, 1), ComponentSum(args.nonces, 2)>>)

\* C19 amended: the same, a component whose sum is the point at infinity being
\* the generator.
C19_NonceAggIsComponentSumOrGenerator ==
  (ret.op = "aggnonce_new" /\ ret.n = 2) =>
    /\ ret.val = ret.first
    /\ \A j \in 1..2 :
         ret.val.v[j] = IF ComponentSum(args.nonces, j) = Infinity THEN G
                        ELSE ComponentSum(args.nonces, j)

C19_Witness ==
  /\ ret.op = "aggnonce_new" /\ ret.n = 2
  /\ Len(args.nonces) > 1
  /\ Permuted(args.nonces, args.perm) # args.nonces
  /\ ComponentSum(args.nonces, 1) = Infinity
  /\ ComponentSum(args.nonces, 2) \notin {Infinity, G}
  /\ ret.val = ret.first
  /\ ret.val = Ok(<<G, ComponentSum(args.nonces, 2)>>)

(***************************************************************************)
(* The aggregator with a cache that may be tweaked: partial signatures     *)
(* arrive from the network and are aggregated in the signers' order and    *)
(* in a permuted order.                                                    *)
(***************************************************************************)
PartialSigAggPermuted(p) ==
  /\ sig # None
  /\ ret' = [op |-> "partial_sig_agg_permuted", perm |-> p,
             val |-> partial_sig_agg(session.v,
                                     Permuted([i \in Signers |-> psig[i].v], p))]
  /\ UNCHANGED <<tweaked, seckeys, msg, cache, secnonce, pubnonce, aggnonce,
                 adaptor, session, psig, oks, sig, final, args>>

\* The cache as aggregated, or after one successful plain tweak.
NextSigAgg ==
  \/ \E t \in Points : tweaked = None /\ TweakBeforeSigning(t, FALSE)
  \/ \E i \in Signers : \E sid \in SessionIds(i) : NonceGen(i, sid)
  \/ NonceAgg
  \/ SessionNew(None)
  \/ \E i \in Signers : \E w \in Words : ReceivePartialSig(i, [len |-> 32, v |-> w])
  \/ PartialSigAgg
  \/ \E p \in Permutations(Signers) : PartialSigAggPermuted(p)

SpecSigAgg == Init /\ [][NextSigAgg]_vars

RECURSIVE ScalarSum(_)
ScalarSum(l) == IF l = <<>> THEN 0 ELSE (Head(l) + ScalarSum(Tail(l))) % Order

PartialSigs == [i \in Signers |-> psig[i].v]

\* C20 as stated: partial_sig_agg returns (the session's final nonce x
\* coordinate, the sum of the partial signature scalars mod the order), for
\* every permutation of the partial signatures.
C20_AggregateIsNonceAndSum ==
  /\ sig # None =>
       sig.v = [rx |-> session.v.fin_nonce, s |-> ScalarSum(PartialSigs)]
  /\ ret.op = "partial_sig_agg_permuted" => ret.val = Ok(sig.v)

\* C20 amended: the scalar half is the sum of the partial signature scalars
\* plus the session's tweak term (zero when the cache was never tweaked).
C20_AggregateIsNonceAndSumPlusTweakTerm ==
  /\ sig # None =>
       /\ sig.v = [rx |-> session.v.fin_nonce,
                   s |-> (ScalarSum(PartialSigs) + session.v.s_part) % Order]
       /\ cache.c.tweak = 0 => session.v.s_part = 0
  /\ ret.op = "partial_sig_agg_permuted" => ret.val = Ok(sig.v)

C20_Witness ==
  /\ ret.op = "partial_sig_agg_permuted"
  /\ Len(seckeys) > 1
  /\ Permuted(PartialSigs, ret.perm) # PartialSigs
  /\ session.v.s_part # 0
  /\ ret.val = Ok(sig.v)


\* C21: when a component-wise sum of the public nonces is the point at
\* infinity, MusigAggNonce::new returns an aggregate nonce (it does not abort)
\* and that component of it is the generator.
C21_IdentitySumBecomesGenerator ==
  ret.op = "aggnonce_new" =>
    /\ ret.val.tag = "Ok"
    /\ \A j \in 1..2 :
         ComponentSum(args.nonces, j) = Infinity => ret.val.v[j] = G

C21_Witness ==
  /\ ret.op = "aggnonce_new" /\ ret.n = 1
  /\ Len(args.nonces) = 2
  /\ ComponentSum(args.nonces, 1) = Infinity
  /\ ComponentSum(args.nonces, 2) = Infinity
  /\ ret.val = Ok(<<G, G>>)

\* The final nonce R1 + b*R2 (+ adaptor) of the last MusigSession::new call.
LastFinalNonce ==
  fin_nonce_sum(aggnonce.v,
                compute_noncecoef(aggnonce.v, xonly(cache.c.pk), msg),
                ret.adaptor)

\* C22: MusigSession::new returns a session (it does not abort), and when the
\* final nonce R1 + b*R2 (+ adaptor) is the point at infinity the session's
\* final nonce is the generator.
C22_IdentityFinalNonceBecomesGenerator ==
  ret.op = "session_new" =>
    /\ ret.val.tag = "Ok"
    /\ LastFinalNonce = Infinity => ret.val.v.fin_nonce = G

\* MusigSession::new was called with a final nonce at infinity and aborted.
C22_Witness ==
  /\ ret.op = "session_new"
  /\ LastFinalNonce = Infinity
  /\ ret.val.tag = "Panic"
  /\ session = None

(***************************************************************************)
(* adapt and extract_adaptor on any two 64-byte signatures.                *)
(***************************************************************************)
InitAdaptorAny ==
  /\ seckeys = <<>>
  /\ msg = 0
  /\ cache = None
  /\ args \in [sig : [rx : Words, s : Words],
               pre_sig : [rx : Words, s : Words],
               sec_adaptor : Scalars,
               nonce_parity : {EvenParity, OddParity}]
  /\ NoProtocolState

ExtractAdaptorAny ==
  /\ ret.op = "none"
  /\ ret' = [op |-> "extract_adaptor",
             val |-> extract_adaptor(args.sig, args.pre_sig, args.nonce_parity)]
  /\ UNCHANGED <<tweaked, seckeys, msg, cache, args>>
  /\ UNCHANGED ProtocolVars

NextAdaptorAny == AdaptCall \/ ExtractAdaptorAny

SpecAdaptorAny == InitAdaptorAny /\ [][NextAdaptorAny]_vars

\* C23: for every two 64-byte signatures (scalar halves not below the order
\* included), every adaptor secret and every parity, adapt and extract_adaptor
\* return a value.
C23_AdaptorCallsAreTotal ==
  ret.op \in {"adapt", "extract_adaptor"} => ret.val.tag = "Ok"

\* extract_adaptor aborted on a signature whose scalar half is not below the
\* order.
C23_Witness ==
  /\ ret.op = "extract_adaptor"
  /\ args.sig.s >= Order
  /\ args.pre_sig.s < Order
  /\ ret.val = Panic("Arguments must be valid and well-typed")

(***************************************************************************)
(* The cache is tweaked after the session was created with it, and then    *)
(* passed to partial_sign and partial_verify.                              *)
(***************************************************************************)
\* The cache the session was created with: no tweak comes before the session.
BuiltCache == MusigKeyAggCache_new(PubKeys(seckeys)).v

TweakAfterSession(t, is_xonly) ==
  /\ session # None
  /\ tweaked = None
  /\ IF is_xonly THEN TweakXonly(t) ELSE TweakEc(t)

\* partial_sign with a fresh secret nonce and the cache as it is now; the
\* result with the cache the session was created with is recorded next to it.
PartialSignLate(i) ==
  /\ session # None
  /\ secnonce[i] # None
  /\ secnonce[i].v # ZeroSecNonce
  /\ LET r == partial_sign(session.v, secnonce[i].v, KeyPair(seckeys[i]), cache)
         b == partial_sign(session.v, secnonce[i].v, KeyPair(seckeys[i]),
                           BuiltCache)
     IN  /\ secnonce' = [secnonce EXCEPT ![i] = Some(r.secnonce)]
         /\ ret' = [op |-> "partial_sign_late", i |-> i, val |-> r.ret,
                    built |-> b.ret]
         /\ oks' = [oks EXCEPT ![i] = @ + 1]
         /\ psig' = [psig EXCEPT ![i] = Some(r.ret.v)]
  /\ UNCHANGED <<tweaked, seckeys, msg, cache, pubnonce, aggnonce, adaptor, session,
                 sig, final, args>>

PartialVerifyLate(i) ==
  /\ psig[i] # None
  /\ ret' = [op |-> "partial_verify_late", i |-> i,
             val |-> partial_verify(session.v, cache, psig[i].v, pubnonce[i].v,
                                    pub_key(seckeys[i])),
             built |-> partial_verify(session.v, BuiltCache, psig[i].v,
                                      pubnonce[i].v, pub_key(seckeys[i]))]
  /\ UNCHANGED <<tweaked, seckeys, msg, cache, secnonce, pubnonce, aggnonce, adaptor,
                 session, psig, oks, sig, final, args>>

NextLateTweak ==
  \/ \E i \in Signers : \E sid \in SessionIds(i) : NonceGen(i, sid)
  \/ NonceAgg
  \/ SessionNew(None)
  \/ \E t \in Points : \E is_xonly \in BOOLEAN : TweakAfterSession(t, is_xonly)
  \/ \E i \in Signers : PartialSignLate(i)
  \/ \E i \in Signers : PartialVerifyLate(i)

SpecLateTweak == Init /\ [][NextLateTweak]_vars

LateOps == {"partial_sign_late", "partial_verify_late"}

\* Whether signing negates the secret key on account of the cache: the parity
\* of the aggregate key's y coordinate combined with the accumulated parity.
KeyNegation(c) == (fe_is_odd(c.c.pk) + c.c.internal_key_parity) % 2

\* C24 as stated: partial_sign and partial_verify with a cache that was tweaked
\* after the session was created give the partial signature and the outcome
\* they give with the cache the session was created with.
C24_LateTweakKeepsResults ==
  ret.op \in LateOps => ret.val = ret.built

\* C24 amended: the same, when the tweak did not change whether the secret key
\* is negated on account of the cache.
C24_LateTweakKeepsResultsIfNegationKept ==
  (ret.op \in LateOps /\ KeyNegation(cache) = KeyNegation(BuiltCache))
    => ret.val = ret.built

C24_Witness ==
  /\ ret.op = "partial_sign_late"
  /\ tweaked # None
  /\ cache.c.internal_key_parity # BuiltCache.c.internal_key_parity
  /\ KeyNegation(cache) = KeyNegation(BuiltCache)
  /\ ret.val.tag = "Ok"
  /\ ret.val = ret.built

(***************************************************************************)
(* Tweaks and adaptor secrets given as 32 bytes.  The key tweak functions  *)
(* take a SecretKey, adapt takes a Tweak.                                  *)
(***************************************************************************)
\* SecretKey::from_slice: a scalar below the order that is not zero.
SecretKey_from_slice(data) ==
  IF data = 0 \/ data >= Order THEN Err("InvalidSecretKey") ELSE Ok(data)

\* Tweak::from_slice: a scalar below the order, zero included.
Tweak_from_slice(data) ==
  IF data >= Order THEN Err("InvalidTweak") ELSE Ok(data)

InitTweakBytes ==
  /\ seckeys \in {ks \in KeyLists : ffi_pubkey_agg(PubKeys(ks)).cache.pk # Infinity}
  /\ msg = 0
  /\ cache = MusigKeyAggCache_new(PubKeys(seckeys)).v
  /\ args \in [pre_sig : [rx : {G}, s : Scalars],
               nonce_parity : {EvenParity, OddParity}]
  /\ NoProtocolState

\* The caller turns the bytes into the argument type and, when that type has
\* such a value, calls the tweak function.
TweakFromBytes(data, is_xonly) ==
  /\ tweaked = None
  /\ LET t == SecretKey_from_slice(data)
         r == IF is_xonly THEN pubkey_xonly_tweak_add(cache, t.v)
              ELSE pubkey_ec_tweak_add(cache, t.v)
     IN  /\ ret' = [op |-> "tweak_from_bytes", is_xonly |-> is_xonly,
                    bytes |-> data, before |-> cache.c.pk,
                    val |-> IF t.tag = "Ok" THEN r.ret ELSE t]
         /\ cache' = IF t.tag = "Ok" THEN r.self ELSE cache
         /\ tweaked' = IF t.tag = "Ok" /\ r.ret.tag = "Ok"
                       THEN Some(r.ret.v) ELSE tweaked
  /\ UNCHANGED <<seckeys, msg, args>>
  /\ UNCHANGED ProtocolVars

AdaptFromBytes(data) ==
  /\ LET t == Tweak_from_slice(data)
     IN  ret' = [op |-> "adapt_from_bytes", bytes |-> data,
                 val |-> IF t.tag = "Ok"
                         THEN adapt(args.pre_sig, t.v, args.nonce_parity)
                         ELSE t]
  /\ UNCHANGED <<tweaked, seckeys, msg, cache, args>>
  /\ UNCHANGED ProtocolVars

NextTweakBytes ==
  \/ \E w \in Words : \E is_xonly \in BOOLEAN : TweakFromBytes(w, is_xonly)
  \/ \E w \in Words : AdaptFromBytes(w)

SpecTweakBytes == InitTweakBytes /\ [][NextTweakBytes]_vars

\* C25: with 32 zero bytes as the tweak, the key tweak operations return the
\* aggregate key unchanged (its x-only form for the x-only tweak), and with 32
\* zero bytes as the adaptor secret adapt returns a signature.
C25_ZeroTweakAccepted ==
  /\ (ret.op = "tweak_from_bytes" /\ ret.bytes = 0) =>
       ret.val = Ok(IF ret.is_xonly THEN xonly(ret.before) ELSE ret.before)
  /\ (ret.op = "adapt_from_bytes" /\ ret.bytes = 0) => ret.val.tag = "Ok"

\* The zero tweak was refused before the tweak function could be called.
C25_Witness ==
  /\ ret.op = "tweak_from_bytes"
  /\ ~ret.is_xonly
  /\ ret.bytes = 0
  /\ ret.val = Err("InvalidSecretKey")
  /\ cache = MusigKeyAggCache_new(PubKeys(seckeys)).v

(***************************************************************************)
(* partial_verify on any combination of a received partial signature, a    *)
(* signer's public nonce, a signer's public key and a session.             *)
(***************************************************************************)
\* One partial signature arrives and is checked.
ReceiveOnePartialSig(i, data) ==
  /\ \A k \in Signers : psig[k] = None
  /\ ReceivePartialSig(i, data)

PartialVerifyAny(i, j, k, other_session) ==
  /\ psig[i] # None
  /\ other_session => OtherSession.tag = "Ok"
  /\ LET sess == IF other_session THEN OtherSession.v ELSE session.v
     IN  ret' = [op |-> "partial_verify_any", i |-> i, j |-> j, k |-> k,
                 other_session |-> other_session,
                 val |-> partial_verify(sess, cache, psig[i].v, pubnonce[j].v,
                                        pub_key(seckeys[k]))]
  /\ UNCHANGED <<tweaked, seckeys, msg, cache, secnonce, pubnonce, aggnonce, adaptor,
                 session, psig, oks, sig, final, args>>

NextVerify ==
  \/ \E i \in Signers : \E sid \in SessionIds(i) : NonceGen(i, sid)
  \/ NonceAgg
  \/ \E t \in {None, Some(G)} : SessionNew(t)
  \/ \E i \in Signers : \E w \in Words : ReceiveOnePartialSig(i, [len |-> 32, v |-> w])
  \/ \E i \in Signers, j \in Signers, k \in Signers, o \in BOOLEAN :
       PartialVerifyAny(i, j, k, o)

SpecVerify == Init /\ [][NextVerify]_vars

\* R1 + b*R2 + e*a*X for the public nonce (R1, R2) and the key X, negated
\* nonce for an odd final nonce, negated challenge for a negated aggregate key.
ExpectedCommitment(sess, R, X) ==
  LET a == IF X = cache.c.second_pk_x THEN 1
           ELSE TaggedHash("KeyAgg coefficient", <<cache.c.pk_hash, X>>)
      sr == IF sess.fin_nonce_parity = OddParity THEN Order - 1 ELSE 1
      se == IF KeyNegation(cache) = 1 THEN Order - 1 ELSE 1
  IN  (sr * (R[1] + sess.noncecoef * R[2]) + se * sess.challenge * a * X) % Order

\* C26: partial_verify returns true exactly when s*G = R1 + b*R2 + e*a*X
\* (parity-adjusted) for the partial signature s, public nonce (R1, R2), public
\* key X and session it is given, whichever signer and session they belong to.
C26_PartialVerifyIsTheEquation ==
  ret.op = "partial_verify_any" =>
    LET sess == IF ret.other_session THEN OtherSession.v ELSE session.v
    IN  ret.val = (psig[ret.i].v % Order
                     = ExpectedCommitment(sess, pubnonce[ret.j].v,
                                          pub_key(seckeys[ret.k])))

\* A partial signature that is accepted with its signer's nonce and key is
\* rejected with another signer's nonce.
C26_Witness ==
  /\ ret.op = "partial_verify_any"
  /\ ret.j # ret.i /\ ret.k = ret.i /\ ~ret.other_session
  /\ ret.val = FALSE
  /\ partial_verify(session.v, cache, psig[ret.i].v, pubnonce[ret.i].v,
                    pub_key(seckeys[ret.i]))
  /\ session.v.fin_nonce_parity = OddParity
  /\ KeyNegation(cache) = 1

\* k1' + b*k2' + e*a*x' for the secret nonce k = (k1, k2) and the secret key
\* x: the nonce negated for an odd final nonce, the key negated when an odd
\* number of its own y parity and the cache's parities (aggregate key,
\* accumulated) is set.
ExpectedPartialSig(sess, k, x) ==
  LET X == xonly(ecmult_gen(x))
      a == IF X = cache.c.second_pk_x THEN 1
           ELSE TaggedHash("KeyAgg coefficient", <<cache.c.pk_hash, X>>)
      sr == IF sess.fin_nonce_parity = OddParity THEN Order - 1 ELSE 1
      sx == IF (fe_is_odd(ecmult_gen(x)) + KeyNegation(cache)) % 2 = 1
            THEN Order - 1 ELSE 1
  IN  (sr * (k[1] + sess.noncecoef * k[2]) + sess.challenge * a * sx * x) % Order

\* C27: partial_sign with a fresh secret nonce (k1, k2) returns
\* k1' + b*k2' + e*a_i*x_i' mod the order, with k1', k2' negated exactly for an
\* odd final nonce and x_i' negated according to the key's own parity and the
\* parities the cache holds.
C27_PartialSignIsTheFormula ==
  [][\A i \in Signers :
       (ret'.op = "partial_sign" /\ ret'.i = i /\ secnonce[i] # None
          /\ secnonce[i].v # ZeroSecNonce)
       => ret'.val = Ok(ExpectedPartialSig(session.v, secnonce[i].v, seckeys[i]))]_vars

C27_Witness ==
  /\ ret.op = "partial_sign"
  /\ ret.val.tag = "Ok"
  /\ psig[ret.i] = Some(ret.val.v)
  /\ session.v.fin_nonce_parity = OddParity
  /\ fe_is_odd(ecmult_gen(seckeys[ret.i])) = 1
  /\ cache.c.internal_key_parity = 1
  /\ KeyNegation(cache) = 0
  /\ session.v.challenge # 0
  /\ Len(seckeys) > 1

\* The second-listed distinct key of a key list, if it has one.
SecondDistinct(l) ==
  IF \E i \in DOMAIN l : l[i] # l[1]
  THEN LET i == CHOOSE i \in DOMAIN l :
                  l[i] # l[1] /\ \A j \in 1..(i - 1) : l[j] = l[1]
       IN  Some(l[i])
  ELSE None

\* The sum of a_i*X_i over the list l, the key d having coefficient 1 and every
\* other key the coefficient hashed from the list commitment and the key.
RECURSIVE WeightedSum(_, _, _)
WeightedSum(l, d, L) ==
  IF l = <<>> THEN Infinity
  ELSE LET X == Head(l)
           a == IF Some(X) = d THEN 1
                ELSE TaggedHash("KeyAgg coefficient", <<L, X>>)
       IN  (a * X + WeightedSum(Tail(l), d, L)) % Order

ExpectedAggregate(l) ==
  WeightedSum(l, SecondDistinct(l), TaggedHash("KeyAgg list", l))

FirstCallDone == ret.op = "keyagg_new" /\ ret.n = 1

\* C28 as stated: MusigKeyAggCache::new returns a cache for every non-empty
\* key list; the list has a designated key (its second-listed distinct key)
\* with coefficient 1, every other key has the hash-derived coefficient, and
\* the aggregate point is the sum of a_i*X_i.
C28_AggregateIsWeightedSumWithDesignatedKey ==
  FirstCallDone =>
    /\ ret.val.tag = "Ok"
    /\ SecondDistinct(args.pubkeys) # None
    /\ cache.c.pk = ExpectedAggregate(args.pubkeys)
    /\ agg_pk(cache) = xonly(ExpectedAggregate(args.pubkeys))

\* C28 amended: the same, the designated key existing only in a list with two
\* distinct keys; in a list of identical keys every key has the hash-derived
\* coefficient.
C28_AggregateIsWeightedSum ==
  FirstCallDone =>
    /\ ret.val.tag = "Ok"
    /\ cache.c.pk = ExpectedAggregate(args.pubkeys)
    /\ agg_pk(cache) = xonly(ExpectedAggregate(args.pubkeys))
    /\ (\A i \in DOMAIN args.pubkeys : args.pubkeys[i] = args.pubkeys[1])
         => cache.c.pk
              = WeightedSum(args.pubkeys, None,
                            TaggedHash("KeyAgg list", args.pubkeys))

C28_Witness ==
  /\ FirstCallDone
  /\ Len(args.pubkeys) = 3
  /\ args.pubkeys[2] = args.pubkeys[1]
  /\ SecondDistinct(args.pubkeys) = Some(args.pubkeys[3])
  /\ TaggedHash("KeyAgg coefficient",
                <<TaggedHash("KeyAgg list", args.pubkeys), args.pubkeys[1]>>)
       \notin {0, 1}
  /\ cache.c.pk = ExpectedAggregate(args.pubkeys)

\* C29: for scalar halves below the order, adapt returns the nonce half of the
\* pre-signature with the scalar half s + t for an even and s - t for an odd
\* nonce parity, and extract_adaptor returns sig.s - pre_sig.s for an even and
\* pre_sig.s - sig.s for an odd nonce parity (mod the order): the same
\* convention.
C29_AdaptSignConvention ==
  /\ (ret.op = "adapt" /\ args.pre_sig.s \in Scalars) =>
       ret.val = Ok([rx |-> args.pre_sig.rx,
                     s |-> IF args.nonce_parity = EvenParity
                           THEN (args.pre_sig.s + args.sec_adaptor) % Order
                           ELSE (args.pre_sig.s + Order - args.sec_adaptor)
                                  % Order])
  /\ (ret.op = "extract_adaptor" /\ args.pre_sig.s \in Scalars
        /\ args.sig.s \in Scalars) =>
       ret.val = Ok(IF args.nonce_parity = EvenParity
                    THEN (args.sig.s + Order - args.pre_sig.s) % Order
                    ELSE (args.pre_sig.s + Order - args.sig.s) % Order)

C29_Witness ==
  /\ ret.op = "adapt"
  /\ args.nonce_parity = OddParity
  /\ args.sec_adaptor \notin {0, args.pre_sig.s}
  /\ args.pre_sig.s \in Scalars
  /\ args.pre_sig.s < args.sec_adaptor
  /\ ret.val.v.rx = args.pre_sig.rx
  /\ ret.val.v.s = args.pre_sig.s + Order - args.sec_adaptor

(***************************************************************************)
(* A nonce pair is generated and its secret nonce, not used before, is     *)
(* passed to partial_sign with any key pair, any cache (the cache, or the  *)
(* cache after a tweak) and any session made for the cache.                *)
(***************************************************************************)
InitNoFail ==
  /\ seckeys \in {ks \in KeyLists : ffi_pubkey_agg(PubKeys(ks)).cache.pk # Infinity}
  /\ msg \in Msgs
  /\ cache = MusigKeyAggCache_new(PubKeys(seckeys)).v
  /\ args \in [session_id : {0, 1, WordMax - 1},
               with_cache : BOOLEAN,
               with_sec_key : BOOLEAN,
               with_msg : BOOLEAN,
               extra_rand : {None, Some(0)}]
  /\ NoProtocolState

PartialSignFresh ==
  /\ ret.op \in {"new_musig_nonce_pair", "nonce_gen"}
  /\ ret.val.tag = "Ok"
  /\ \E sess \in {r.v : r \in {x \in {MusigSession_new(cache, an, msg, ad) :
                                       an \in Points \X Points,
                                       ad \in {None, Some(G)}} :
                                x.tag = "Ok"}} :
       \E c \in {cache}
                \cup {pubkey_ec_tweak_add(cache, t).self : t \in Points}
                \cup {pubkey_xonly_tweak_add(cache, t).self : t \in Points} :
         \E sk \in Points :
           LET r == partial_sign(sess, ret.val.v.sec_nonce, KeyPair(sk), c)
           IN  ret' = [op |-> "partial_sign",
                       own_key |-> \E i \in Signers : sk = seckeys[i],
                       own_cache |-> c = cache,
                       secnonce |-> r.secnonce,
                       val |-> r.ret]
  /\ UNCHANGED <<tweaked, seckeys, msg, cache, args>>
  /\ UNCHANGED ProtocolVars

NextNoFail == NewMusigNoncePair \/ NonceGenCall \/ PartialSignFresh

SpecNoFail == InitNoFail /\ [][NextNoFail]_vars

\* C30: new_musig_nonce_pair (and nonce_gen) returns Ok for every session id
\* that is not all zero, whichever optional inputs are present, and
\* partial_sign returns Ok for a secret nonce not used before, whatever key
\* pair, cache and session it is given.
C30_OnlyDocumentedFailures ==
  /\ (ret.op \in {"new_musig_nonce_pair", "nonce_gen"} /\ args.session_id # 0)
       => ret.val.tag = "Ok"
  /\ ret.op = "partial_sign" => ret.val.tag = "Ok"

C30_Witness ==
  /\ ret.op = "partial_sign"
  /\ ret.val.tag = "Ok"
  /\ ~ret.own_key
  /\ ~ret.own_cache
  /\ args.session_id # 0
  /\ ~args.with_cache /\ ~args.with_sec_key /\ ~args.with_msg
  /\ args.extra_rand = None

\* C31: nonce_gen, partial_sign, partial_verify, partial_sig_agg and
\* nonce_parity (called for adapt and extract_adaptor) leave the session and
\* the key-agg cache as they were, so that, whatever the signers did before and
\* in whatever order, the cache is the cache that was built, the session is the
\* session that MusigSession::new returned, and a signer's partial signature
\* and its verification are what they are for that cache and that session.
C31_SessionAndCacheAreReadOnly ==
  /\ [](/\ cache = BuiltCache
        /\ session # None
             => session.v = MusigSession_new(BuiltCache, aggnonce.v, msg,
                                             AdaptorPoint).v)
  /\ [][/\ ret'.op \in {"nonce_gen", "partial_sign", "partial_verify",
                         "partial_sig_agg", "adapt", "extract_adaptor"}
           => session' = session /\ cache' = cache
        /\ \A i \in Signers :
             (psig[i] = None /\ psig'[i] # None)
               => psig'[i].v = partial_sign(session.v, secnonce[i].v,
                                            KeyPair(seckeys[i]), cache).ret.v
        /\ ret'.op = "partial_verify"
             => ret'.val = partial_verify(session.v, cache, psig[ret'.i].v,
                                          pubnonce[ret'.i].v,
                                          pub_key(seckeys[ret'.i]))]_vars

\* The second signer has signed and verified before the first signer signs.
C31_Witness ==
  /\ Len(seckeys) = 2
  /\ psig[1] = None
  /\ psig[2] # None
  /\ ret.op = "partial_verify"
  /\ ret.i = 2
  /\ ret.val
  /\ cache = BuiltCache
  /\ session = Some(MusigSession_new(BuiltCache, aggnonce.v, msg, AdaptorPoint).v)

\* C32 as stated: over any sequence of plain and x-only tweaks of one cache, a
\* successful tweak returns the current key (its even-y form for an x-only
\* tweak) plus t*G (in x-only form for an x-only tweak), the key it returns is
\* the current key of the next tweak, and the aggregate of the partial
\* signatures made with the cache is accepted by the Schnorr verifier for the
\* x-only form of the key the last tweak returned.
C32_TweaksAccumulate ==
  /\ [][(ret'.op \in TweakOps /\ ret'.val.tag = "Ok")
          => /\ ret'.op = "pubkey_ec_tweak_add"
                  => ret'.val.v = ge_add(cache.c.pk, ecmult_gen(ret'.tweak))
             /\ ret'.op = "pubkey_xonly_tweak_add"
                  => ret'.val.v = xonly(ge_add(xonly(cache.c.pk),
                                               ecmult_gen(ret'.tweak)))
             /\ tweaked # None => xonly(cache.c.pk) = xonly(tweaked.v)
             /\ xonly(cache'.c.pk) = xonly(ret'.val.v)]_vars
  /\ []((sig # None /\ tweaked # None)
          => verify_schnorr(sig.v, msg, xonly(tweaked.v)))

\* C32 amended: the same, the aggregate being accepted when no sum of the
\* public nonces is the point at infinity.
C32_TweaksAccumulateNoSubstitution ==
  /\ [][(ret'.op \in TweakOps /\ ret'.val.tag = "Ok")
          => /\ ret'.op = "pubkey_ec_tweak_add"
                  => ret'.val.v = ge_add(cache.c.pk, ecmult_gen(ret'.tweak))
             /\ ret'.op = "pubkey_xonly_tweak_add"
                  => ret'.val.v = xonly(ge_add(xonly(cache.c.pk),
                                               ecmult_gen(ret'.tweak)))
             /\ tweaked # None => xonly(cache.c.pk) = xonly(tweaked.v)
             /\ xonly(cache'.c.pk) = xonly(ret'.val.v)]_vars
  /\ []((sig # None /\ tweaked # None /\ NoSubstitution)
          => verify_schnorr(sig.v, msg, xonly(tweaked.v)))

\* Two tweaks or more have succeeded (the accumulated tweak is zero), one of
\* them an x-only tweak that negated the key, the last one a plain tweak that
\* returned a key with odd y.
C32_Witness ==
  /\ sig # None /\ tweaked # None /\ NoSubstitution
  /\ cache.c.tweak = 0
  /\ cache.c.internal_key_parity = 1
  /\ fe_is_odd(tweaked.v) = 1
  /\ tweaked.v = cache.c.pk
  /\ verify_schnorr(sig.v, msg, xonly(tweaked.v))

\* C33: MusigPartialSignature::from_slice on a 32-byte input returns Ok
\* exactly when the big-endian value of the input is below the curve order and
\* Err(MalformedArg) otherwise; serialize on the value it returned gives the 32
\* bytes of the input.
C33_PartialSigParsesIffBelowOrder ==
  (args.kind = "MusigPartialSignature" /\ args.data.len = 32) =>
    /\ ret.op = "from_slice" =>
         /\ ret.val.tag = "Ok" <=> args.data.v < Order
         /\ ret.val.tag # "Ok" => ret.val = Err([kind |-> "MalformedArg"])
    /\ ret.op = "serialize" => ret.val = args.data

C33_Witness ==
  /\ args.kind = "MusigPartialSignature"
  /\ args.data = [len |-> 32, v |-> Order - 1]
  /\ ret.op = "serialize"
  /\ ret.val = [len |-> 32, v |-> Order - 1]

====
